---- MODULE Spec2Model ----
(***************************************************************************)
(* Model of the wallet balance checker (processWallets and its helpers).   *)
(* One process runs the batch: it creates the output files, reads the      *)
(* source list, fetches one token catalog per chain, probes every eligible *)
(* wallet and removes each wallet from the source list once it is probed.  *)
(* The process may be killed between any two steps and started again; the  *)
(* files survive, the memory of the process does not.                      *)
(***************************************************************************)
EXTENDS Integers, Sequences, FiniteSets, TLC

\* ------------------------------------------------------------------ bounds
MaxRows == 2
NumChains == 2
MaxCatalog == 1
MaxRuns == 2
MaxAnomalies == 1
MaxPositives == 1
MaxEvents == 2
MaxPaced == 7

\* ------------------------------------------------------- program constants
TOKEN_LIMIT == 20
WEI_DECIMALS == 18

\* ------------------------------------------------------------ small helpers
Min(a, b) == IF a < b THEN a ELSE b

Last(s) == s[Len(s)]

RECURSIVE SelectIdx(_, _, _)
\* the indices i of s, in order, for which keep[i] holds
SelectIdx(s, keep, i) ==
    IF i > Len(s) THEN <<>>
    ELSE (IF keep[i] THEN <<s[i]>> ELSE <<>>) \o SelectIdx(s, keep, i + 1)

RECURSIVE SeqsUpTo(_, _)
SeqsUpTo(S, n) ==
    IF n = 0 THEN {<<>>}
    ELSE LET shorter == SeqsUpTo(S, n - 1)
         IN  shorter \cup {Append(s, x) : s \in {t \in shorter : Len(t) = n - 1}, x \in S}

\* JavaScript's undefined, as it reaches a CSV cell or a record field
UNDEF == "undefined"

\* text: a JavaScript string is a sequence of characters
StartsWith(s, p) == Len(s) >= Len(p) /\ SubSeq(s, 1, Len(p)) = p

\* ------------------------------------------------------------ chain registry
Registry == <<
    [id |-> 1,     name |-> "Ethereum",  symbol |-> "ETH"],
    [id |-> 56,    name |-> "BNB Chain", symbol |-> "BNB"],
    [id |-> 137,   name |-> "Polygon",   symbol |-> "MATIC"],
    [id |-> 43114, name |-> "Avalanche", symbol |-> "AVAX"] >>

CHAINS == SubSeq(Registry, 1, NumChains)

ChainIdx == 1..Len(CHAINS)

\* ------------------------------------------------------------ token catalog
TokenAddresses == <<
    "0xT01", "0xT02", "0xT03", "0xT04", "0xT05", "0xT06", "0xT07", "0xT08",
    "0xT09", "0xT10", "0xT11", "0xT12", "0xT13", "0xT14", "0xT15", "0xT16",
    "0xT17", "0xT18", "0xT19", "0xT20", "0xT21", "0xT22", "0xT23", "0xT24",
    "0xT25", "0xT26", "0xT27", "0xT28", "0xT29", "0xT30", "0xT31", "0xT32",
    "0xT33", "0xT34", "0xT35", "0xT36", "0xT37", "0xT38", "0xT39", "0xT40",
    "0xT41", "0xT42", "0xT43", "0xT44", "0xT45", "0xT46", "0xT47", "0xT48",
    "0xT49", "0xT50" >>

TokenSymbols == <<
    "TK01", "TK02", "TK03", "TK04", "TK05", "TK06", "TK07", "TK08", "TK09",
    "TK10", "TK11", "TK12", "TK13", "TK14", "TK15", "TK16", "TK17", "TK18",
    "TK19", "TK20", "TK21", "TK22", "TK23", "TK24", "TK25", "TK26", "TK27",
    "TK28", "TK29", "TK30", "TK31", "TK32", "TK33", "TK34", "TK35", "TK36",
    "TK37", "TK38", "TK39", "TK40", "TK41", "TK42", "TK43", "TK44", "TK45",
    "TK46", "TK47", "TK48", "TK49", "TK50" >>

TokenNames == <<
    "Token01", "Token02", "Token03", "Token04", "Token05", "Token06",
    "Token07", "Token08", "Token09", "Token10", "Token11", "Token12",
    "Token13", "Token14", "Token15", "Token16", "Token17", "Token18",
    "Token19", "Token20", "Token21", "Token22", "Token23", "Token24",
    "Token25", "Token26", "Token27", "Token28", "Token29", "Token30",
    "Token31", "Token32", "Token33", "Token34", "Token35", "Token36",
    "Token37", "Token38", "Token39", "Token40", "Token41", "Token42",
    "Token43", "Token44", "Token45", "Token46", "Token47", "Token48",
    "Token49", "Token50" >>

\* the i-th token descriptor of a catalog, as the catalog service returns it
TokenDescriptor(i) ==
    [address |-> TokenAddresses[i], symbol |-> TokenSymbols[i],
     name |-> TokenNames[i], decimals |-> 6]

Catalog(n) == [i \in 1..n |-> TokenDescriptor(i)]

\* a character of a string payload, iterated as if it were a token descriptor:
\* every field of it is undefined
CharToken == [address |-> UNDEF, symbol |-> UNDEF, name |-> UNDEF, decimals |-> 0]


\* ------------------------------------------------------------- wallet rows
\* addresses are strings, kept as sequences of characters
AddrA == <<"0", "x", "A">>
AddrB == <<"0", "x", "B">>
AddrC == <<"0", "x", "C">>
AddrD == <<"0", "x", "D">>
AddrNoPrefix == <<"A">>
AddrEmpty == <<>>
NA == <<"N", "/", "A">>

SourceRow(address, format, provider) ==
    [verified_credential_address |-> address,
     verified_credential_format |-> format,
     verified_credential_walletProvider |-> provider]

\* a list of MaxRows rows names at most MaxRows wallets
Addresses == SubSeq(<<AddrA, AddrB, AddrC, AddrD>>, 1, MaxRows)

\* the rows a source list is drawn from: the eligible rows of the wallets, and
\* rows that fail one of the conditions of eligibility
RowKinds ==
    { SourceRow(Addresses[i], "blockchain", "embeddedWallet") : i \in 1..Len(Addresses) }
    \cup { SourceRow(AddrA, "email", "embeddedWallet"),
           SourceRow(AddrA, "blockchain", "metamask"),
           SourceRow(AddrNoPrefix, "blockchain", "embeddedWallet"),
           SourceRow(AddrEmpty, "blockchain", "embeddedWallet") }

\* the condition under which processWallets adds a row's address to the set
Eligible(record) ==
    /\ record.verified_credential_address # <<>>
    /\ StartsWith(record.verified_credential_address, <<"0", "x">>)
    /\ record.verified_credential_format = "blockchain"
    /\ record.verified_credential_walletProvider = "embeddedWallet"

RECURSIVE Dedup(_, _)
\* the insertion order of a JavaScript Set: first occurrences, in order
Dedup(s, seen) ==
    IF s = <<>> THEN <<>>
    ELSE IF Head(s) \in seen THEN Dedup(Tail(s), seen)
    ELSE <<Head(s)>> \o Dedup(Tail(s), seen \cup {Head(s)})

\* WalletsOf with an array in the place of the Set: no address is dropped
WalletsOfArray(records) ==
    [i \in 1..Len(SelectSeq(records, Eligible)) |->
        SelectSeq(records, Eligible)[i].verified_credential_address]

\* WalletsOf iterated from the last wallet added to the first
WalletsOfReversed(records) ==
    LET kept == Dedup([i \in 1..Len(SelectSeq(records, Eligible)) |->
                          SelectSeq(records, Eligible)[i].verified_credential_address], {})
    IN  [i \in 1..Len(kept) |-> kept[Len(kept) + 1 - i]]

\* WalletsOf with the startsWith('0x') condition forgotten
WalletsOfAnyPrefix(records) ==
    LET kept == SelectSeq(records, LAMBDA r :
                    /\ r.verified_credential_address # <<>>
                    /\ r.verified_credential_format = "blockchain"
                    /\ r.verified_credential_walletProvider = "embeddedWallet")
    IN  Dedup([i \in 1..Len(kept) |-> kept[i].verified_credential_address], {})

\* const wallets = new Set(); records.forEach(...)
WalletsOf(records) ==
    Dedup([i \in 1..Len(SelectSeq(records, Eligible)) |->
              SelectSeq(records, Eligible)[i].verified_credential_address], {})

\* the row updateWalletListCsv drops for addressToRemove
Completed(record, addressToRemove) ==
    /\ record.verified_credential_address = addressToRemove
    /\ record.verified_credential_format = "blockchain"
    /\ record.verified_credential_walletProvider = "embeddedWallet"

RECURSIVE DropFirst(_, _)
DropFirst(records, addressToRemove) ==
    IF records = <<>> THEN <<>>
    ELSE IF Completed(Head(records), addressToRemove) THEN Tail(records)
    ELSE <<Head(records)>> \o DropFirst(Tail(records), addressToRemove)

\* UpdatedRecords with only the first row of the wallet removed
UpdatedRecordsFirstOnly(records, addressToRemove) == DropFirst(records, addressToRemove)

\* UpdatedRecords with the filter keeping every row
UpdatedRecordsKeepAll(records, addressToRemove) == records

\* records.filter(...) of updateWalletListCsv
UpdatedRecords(records, addressToRemove) ==
    LET keep == [i \in 1..Len(records) |-> ~Completed(records[i], addressToRemove)]
    IN  SelectIdx(records, keep, 1)

\* --------------------------------------------------------------- CSV text
\* A CSV file is its header line, when it has one, and its data lines.
EmptyText == [hdr |-> <<>>, rows |-> <<>>]

\* stringify([headers]): one line, the header
HeaderText(headers) == [hdr |-> <<headers>>, rows |-> <<>>]

SourceColumns ==
    <<"verified_credential_address", "verified_credential_format",
      "verified_credential_walletProvider">>

\* stringify(records, {header: true}): the columns come from the first record,
\* so no record means no header either: the text is empty
StringifyRecords(records) ==
    IF records = <<>> THEN EmptyText ELSE [hdr |-> <<SourceColumns>>, rows |-> records]

\* parse(csvData, {columns: true, skip_empty_lines: true}): the first line names
\* the columns, every other line is a record
ParseRecords(text) == text.rows

\* the source list when there is no file at its path
NoFile == [hdr |-> <<>>, rows |-> <<>>, missing |-> TRUE]

\* fs.appendFileSync(filePath, stringify(rows, {header: false}))
AppendText(text, row) == [text EXCEPT !.rows = Append(@, row)]

\* a cell of a CSV line: undefined is written as the empty string
Cell(v) == IF v = UNDEF THEN "" ELSE v

\* ---------------------------------------------------------------- numbers
RECURSIVE NumDigits(_)
\* the length of value.toString()
NumDigits(n) == IF n < 10 THEN 1 ELSE 1 + NumDigits(n \div 10)

RECURSIVE Norm(_, _)
\* the number num / 10^exp with the trailing zeros of its fraction dropped
Norm(num, exp) ==
    IF num = 0 THEN [num |-> 0, exp |-> 0]
    ELSE IF exp > 0 /\ num % 10 = 0 THEN Norm(num \div 10, exp - 1)
    ELSE [num |-> num, exp |-> exp]

Zero == [num |-> 0, exp |-> 0]

Positive(balance) == balance.num > 0

\* etherUnits[unit] of a unit that is a number and no unit name: undefined
NoDecimals == -1

\* viem formatUnits(value, decimals), read as a number. With decimals undefined
\* no digit is taken as the integer part: the digits of value are the fraction.
FormatUnits(value, decimals) ==
    IF decimals = NoDecimals THEN Norm(value, NumDigits(value))
    ELSE Norm(value, decimals)

\* Number(formatEther(balance)): the unit defaults to 'wei'
FormatEther(wei) == FormatUnits(wei, WEI_DECIMALS)

\* Number(formatEther(balance, decimals)): the second argument of formatEther
\* is a unit name, and a number names no unit
FormatEtherUnit(wei, unit) == FormatUnits(wei, NoDecimals)

\* ------------------------------------------------------------ the records
NoError == "none"

BalanceRecord(chain, tokenType, symbol, balance, tokenAddress, tokenName, error) ==
    [chain |-> chain, tokenType |-> tokenType, symbol |-> symbol,
     balance |-> balance, tokenAddress |-> tokenAddress,
     tokenName |-> tokenName, error |-> error]

ErrorRecord(chain, token, tokenAddress, walletAddress, operation, error) ==
    [chain |-> chain, token |-> token, tokenAddress |-> tokenAddress,
     walletAddress |-> walletAddress, operation |-> operation, error |-> error]

\* the line appendToCsv(errorCsvPath, ...) writes for an error
ErrorLine(e) ==
    <<e.chain, Cell(e.token), Cell(e.tokenAddress), e.walletAddress,
      e.operation, e.error>>

\* the line processWallet writes for a balance
BalanceLine(address, b) ==
    <<address, b.chain, b.tokenType, Cell(b.symbol), b.balance,
      Cell(b.tokenAddress), Cell(b.tokenName)>>

\* the messages of the failures the environment produces
RpcMessage == "rpc request failed"
HttpMessage == "catalog request failed"
SliceMessage == "tokens.slice is not a function"
ReadMessage == "ENOENT: no such file or directory"

\* chain ids as text: String(chainId)
ChainIdText(id) ==
    CASE id = 1 -> "1" [] id = 56 -> "56" [] id = 137 -> "137" [] id = 43114 -> "43114"

\* ------------------------------------------------------- catalog payloads
\* What fetchTokenList hands back: response.data.data when it is truthy,
\* whatever its shape, and [] otherwise.
SeqPayload(n) == [kind |-> "seq", items |-> Catalog(n)]
StringPayload(n) == [kind |-> "string", items |-> [i \in 1..n |-> CharToken]]
ObjectPayload == [kind |-> "object", items |-> <<>>]
AbsentPayload == [kind |-> "absent", items |-> <<>>]
EmptyList == [kind |-> "seq", items |-> <<>>]
Unset == [kind |-> "unset", items |-> <<>>]

\* if (response.data && response.data.data) return response.data.data; return []
FetchResult(body) == IF body.kind = "absent" THEN EmptyList ELSE body

\* tokenLists[chain.id] || []
TokensOf(list) == IF list.kind = "unset" THEN EmptyList ELSE list

\* tokens.slice exists on arrays and strings only
SliceThrows(tokens) == tokens.kind = "object"

\* TokensToCheck with the limit one too high
TokensToCheckOneMore(tokens) ==
    SubSeq(tokens.items, 1, Min(TOKEN_LIMIT + 1, Len(tokens.items)))

\* tokens.slice(0, 20)
TokensToCheck(tokens) == SubSeq(tokens.items, 1, Min(TOKEN_LIMIT, Len(tokens.items)))

\* ----------------------------------------------------------------- probes
\* CheckNativeBalance with the catch returning a balance that is not 0
CheckNativeBalanceStale(address, chain, rpc) ==
    [threw |-> FALSE,
     errs |-> IF rpc.ok THEN <<>>
              ELSE <<ErrorRecord(chain.name, chain.symbol, "native", address,
                                 "checkNativeBalance", RpcMessage)>>,
     record |-> BalanceRecord(chain.name, "native", chain.symbol,
                              FormatEther(IF rpc.ok THEN rpc.raw ELSE 1), "native",
                              chain.symbol, IF rpc.ok THEN NoError ELSE RpcMessage)]

\* CheckNativeBalance without its try/catch: the failure of the call escapes
CheckNativeBalanceNoCatch(address, chain, rpc) ==
    [threw |-> ~rpc.ok, errs |-> <<>>,
     record |-> BalanceRecord(chain.name, "native", chain.symbol,
                              FormatEther(rpc.raw), "native", chain.symbol, NoError)]

\* rpc: what the chain's endpoint answers, [ok, raw]
CheckNativeBalance(address, chain, rpc) ==
    IF rpc.ok
    THEN [threw |-> FALSE, errs |-> <<>>,
          record |-> BalanceRecord(chain.name, "native", chain.symbol,
                                   FormatEther(rpc.raw), "native", chain.symbol, NoError)]
    ELSE [threw |-> FALSE,
          errs |-> <<ErrorRecord(chain.name, chain.symbol, "native", address,
                                 "checkNativeBalance", RpcMessage)>>,
          record |-> BalanceRecord(chain.name, "native", chain.symbol,
                                   Zero, "native", chain.symbol, RpcMessage)]

\* const decimals = token.decimals || 18
DecimalsOf(token) == IF token.decimals = 0 THEN WEI_DECIMALS ELSE token.decimals

\* CheckERC20Balance without its try/catch: the failure of the call escapes
CheckERC20BalanceNoCatch(address, chain, token, rpc) ==
    [threw |-> ~rpc.ok, errs |-> <<>>,
     record |-> BalanceRecord(chain.name, "erc20", token.symbol,
                              FormatEtherUnit(rpc.raw, DecimalsOf(token)),
                              token.address, token.name, NoError)]

CheckERC20Balance(address, chain, token, rpc) ==
    IF rpc.ok
    THEN [threw |-> FALSE, errs |-> <<>>,
          record |-> BalanceRecord(chain.name, "erc20", token.symbol,
                                   FormatEtherUnit(rpc.raw, DecimalsOf(token)),
                                   token.address, token.name, NoError)]
    ELSE [threw |-> FALSE,
          errs |-> <<ErrorRecord(chain.name, token.symbol, token.address, address,
                                 "checkERC20Balance", RpcMessage)>>,
          record |-> BalanceRecord(chain.name, "erc20", token.symbol,
                                   Zero, token.address, token.name, RpcMessage)]

\* NonZero with >= written for >
NonZeroOrZero(record) == record.balance.num >= 0

\* if (balance > 0) of processWallet
NonZero(record) == Positive(record.balance)

\* FetchError with the wallet left empty
FetchErrorNoWallet(chainId) ==
    ErrorRecord(ChainIdText(chainId), "N/A", "N/A", AddrEmpty, "fetchTokenList", HttpMessage)

\* the error fetchTokenList records when the request fails
FetchError(chainId) ==
    ErrorRecord(ChainIdText(chainId), "N/A", "N/A", NA, "fetchTokenList", HttpMessage)

\* TopLevelError under the name of processWallet
TopLevelErrorOtherName(message) ==
    ErrorRecord("N/A", "N/A", "N/A", NA, "processWallet", message)

\* the error the catch of processWallets records
TopLevelError(message) ==
    ErrorRecord("N/A", "N/A", "N/A", NA, "processWallets", message)

\* ------------------------------------------------------------------ state
VARIABLES
    \* the files
    walletList, exists, allBalances, nonZeroBalances, errorCsv, errorJson,
    \* the memory of the running process
    pc, errors, records, wallets, tokenLists, count, chainI, tokenI, cur, op, fileI,
    \* what the environment may still do
    anomLeft, posLeft, runsLeft, catalogSizes,
    \* history, kept to state the properties
    run, origList, startList, startRows, startFiles, probes, fetches, allRun, catalogs,
    cpLog, ends, timeline

files == <<walletList, exists, allBalances, nonZeroBalances, errorCsv, errorJson>>
outputs == <<exists, allBalances, nonZeroBalances, errorCsv, errorJson>>
memory == <<pc, errors, records, wallets, tokenLists, count, chainI, tokenI, cur, op, fileI>>
env == <<anomLeft, posLeft, runsLeft, catalogSizes>>
history == <<run, origList, startList, startRows, startFiles, probes, fetches, allRun,
             catalogs, cpLog, ends, timeline>>
vars == <<files, memory, env, history>>

OutputFiles == <<"all", "nz", "ecsv", "ejson">>

\* JSON.stringify([]) and the text of a file opened for writing, not yet written
JsonDoc(entries) == [valid |-> TRUE, entries |-> entries]
NoDoc == [valid |-> FALSE, entries |-> <<>>]

NoRecord == BalanceRecord("", "", "", Zero, "", "", NoError)

\* the output files as they are
OutputsNow ==
    [exists |-> exists, all |-> allBalances, nz |-> nonZeroBalances,
     ecsv |-> errorCsv, ejson |-> errorJson]

\* the memory of a process that has just started
FreshMemory ==
    /\ pc = "init"
    /\ errors = <<>>
    /\ records = <<>>
    /\ wallets = <<>>
    /\ tokenLists = [i \in ChainIdx |-> Unset]
    /\ count = 0
    /\ chainI = 1
    /\ tokenI = 1
    /\ cur = NoRecord
    /\ op = "none"
    /\ fileI = 1

\* the script is started for the first time: the source list holds one of
\* texts, no output file is there
InitOn(texts, options) ==
    /\ walletList \in texts
    /\ origList = walletList.rows
    /\ exists = {}
    /\ allBalances = EmptyText
    /\ nonZeroBalances = EmptyText
    /\ errorCsv = EmptyText
    /\ errorJson = NoDoc
    /\ FreshMemory
    /\ \E o \in options :
          /\ catalogSizes = o.sizes
          /\ anomLeft = o.budget[1] /\ posLeft = o.budget[2] /\ runsLeft = o.budget[3]
    /\ run = 1
    /\ startList = origList
    /\ startRows = [all |-> 0, nz |-> 0, ecsv |-> 0]
    /\ startFiles = [exists |-> {}, all |-> EmptyText, nz |-> EmptyText,
                     ecsv |-> EmptyText, ejson |-> NoDoc]
    /\ probes = <<>>
    /\ fetches = <<>>
    /\ allRun = <<>>
    /\ catalogs = << [i \in ChainIdx |-> Unset] >>
    /\ cpLog = <<>>
    /\ ends = <<>>
    /\ timeline = <<>>

InitWith(lists, options) == InitOn({StringifyRecords(l) : l \in lists}, options)

SourceLists == SeqsUpTo(RowKinds, MaxRows)

\* What the environment does in one behaviour: at most b[1] failures or odd
\* payloads, b[2] balances above zero, b[3] further runs; MaxEvents in all.
Budgets ==
    {b \in (0..MaxAnomalies) \X (0..MaxPositives) \X (0..(MaxRuns - 1)) :
        b[1] + b[2] + b[3] = MaxEvents}

Init == InitWith(SourceLists, {[sizes |-> 0..MaxCatalog, budget |-> b] : b \in Budgets})

\* ----------------------------------------------------------- environment
PositiveRaws == {1500}

\* the answers an RPC endpoint can give to one call
RpcAnswers ==
    {[ok |-> TRUE, raw |-> 0]}
    \cup (IF posLeft > 0 THEN {[ok |-> TRUE, raw |-> r] : r \in PositiveRaws} ELSE {})
    \cup (IF anomLeft > 0 THEN {[ok |-> FALSE, raw |-> 0]} ELSE {})

\* a call for a token without an address is rejected before it is sent
RpcAnswersFor(token) ==
    IF token.address = UNDEF THEN {[ok |-> FALSE, raw |-> 0]} ELSE RpcAnswers

Spend(rpc, token) ==
    /\ posLeft' = IF rpc.ok /\ rpc.raw > 0 THEN posLeft - 1 ELSE posLeft
    /\ anomLeft' = IF ~rpc.ok /\ token.address # UNDEF THEN anomLeft - 1 ELSE anomLeft
    /\ UNCHANGED <<runsLeft, catalogSizes>>

\* the bodies of a catalog response that is not a failure
Bodies ==
    {SeqPayload(n) : n \in catalogSizes}
    \cup (IF anomLeft > 0 THEN {StringPayload(1), ObjectPayload, AbsentPayload} ELSE {})

NoWallet == <<"-">>

Running == pc \notin {"done", "failed", "dead"}

\* -------------------------------------------------------- initializeOutputFiles
allHeaders == <<"address", "chain", "tokenType", "symbol", "balance", "tokenAddress", "tokenName">>
errorHeaders == <<"chain", "token", "tokenAddress", "walletAddress", "operation", "error">>

\* ExistsSync finding no file, whatever is there
ExistsSyncNever(name) == FALSE

\* fs.existsSync(path)
ExistsSync(name) == name \in exists

AfterInitFile ==
    /\ fileI' = fileI + 1
    /\ pc' = IF fileI = Len(OutputFiles) THEN "read" ELSE "init"

\* if (!fs.existsSync(path)) is false: the file is left as it is
InitSkip ==
    /\ pc = "init"
    /\ ExistsSync(OutputFiles[fileI])
    /\ AfterInitFile
    /\ UNCHANGED <<files, errors, records, wallets, tokenLists, count, chainI, tokenI, cur, op>>
    /\ UNCHANGED <<env, history>>

\* fs.writeFileSync opens the file for writing, which creates it empty ...
InitOpen ==
    /\ pc = "init"
    /\ ~ExistsSync(OutputFiles[fileI])
    /\ exists' = exists \cup {OutputFiles[fileI]}
    /\ pc' = "initWrite"
    /\ UNCHANGED <<walletList, allBalances, nonZeroBalances, errorCsv, errorJson>>
    /\ UNCHANGED <<errors, records, wallets, tokenLists, count, chainI, tokenI, cur, op, fileI>>
    /\ UNCHANGED <<env, history>>

\* ... and then writes the header into it
InitWrite ==
    /\ pc = "initWrite"
    /\ LET name == OutputFiles[fileI] IN
        /\ allBalances' = IF name = "all" THEN HeaderText(allHeaders) ELSE allBalances
        /\ nonZeroBalances' = IF name = "nz" THEN HeaderText(allHeaders) ELSE nonZeroBalances
        /\ errorCsv' = IF name = "ecsv" THEN HeaderText(errorHeaders) ELSE errorCsv
        /\ errorJson' = IF name = "ejson" THEN JsonDoc(<<>>) ELSE errorJson
    /\ AfterInitFile
    /\ UNCHANGED <<walletList, exists>>
    /\ UNCHANGED <<errors, records, wallets, tokenLists, count, chainI, tokenI, cur, op>>
    /\ UNCHANGED <<env, history>>

\* ------------------------------------------------------------------ pacing
\* const delay = (ms) => new Promise(resolve => setTimeout(resolve, ms)): a
\* wait of ms milliseconds. It reads and writes nothing, so it is taken in one
\* step with the statement next to it; timeline keeps the waits and the calls
\* of the current run in the order in which the script makes them.
delay(ms) == [kind |-> "delay", ms |-> ms]

\* a call that the waits are placed around: fetchTokenList, a balance probe,
\* updateWalletListCsv
Call(kind) == [kind |-> kind, ms |-> 0]

\* a pause after every wallet
PauseAfterEach(n) == <<delay(5000)>>

\* if (count % 3 === 0) await delay(5000)
PauseAfter(n) == IF n % 3 = 0 THEN <<delay(5000)>> ELSE <<>>

\* ------------------------------------------------------------ processWallets
\* for (const address of wallets): the first iteration, or the end of the run
GoFirstWallet ==
    IF wallets = <<>>
    THEN pc' = "done" /\ UNCHANGED <<count, chainI>>
    ELSE pc' = "native" /\ count' = 1 /\ chainI' = 1

\* GoFetchNext leaving the loop after the first chain
GoFetchNextOnce == GoFirstWallet

\* for (const chain of CHAINS) of processWallets: the next fetch, or the wallets
GoFetchNext ==
    IF chainI < Len(CHAINS)
    THEN pc' = "fetch" /\ chainI' = chainI + 1 /\ UNCHANGED count
    ELSE GoFirstWallet

SetTokenList(list) ==
    /\ tokenLists' = [tokenLists EXCEPT ![chainI] = list]
    /\ catalogs' = [catalogs EXCEPT ![run] = tokenLists']

\* the catch of processWallets: errors.push({... operation: 'processWallets' ...})
Throw(message, sofar) ==
    /\ errors' = Append(sofar, TopLevelError(message))
    /\ op' = "processWallets"
    /\ pc' = "errJsonOpen"

\* fs.readFileSync, which throws when the file is not there; parse, and the
\* forEach that fills the set of wallets
ReadSource ==
    /\ pc = "read"
    /\ IF walletList = NoFile
       THEN /\ Throw(ReadMessage, errors)
            /\ UNCHANGED <<records, wallets, chainI>>
       ELSE /\ records' = ParseRecords(walletList)
            /\ wallets' = WalletsOf(records')
            /\ pc' = "fetch"
            /\ chainI' = 1
            /\ UNCHANGED <<errors, op>>
    /\ UNCHANGED <<files, tokenLists, count, tokenI, cur, fileI>>
    /\ UNCHANGED <<env, history>>

\* tokenLists[chain.id] = await fetchTokenList(chain.id), up to the first write;
\* when the call returns at once, await delay(500) and the next chain
FetchTokenList ==
    /\ pc = "fetch"
    /\ \/ \E body \in Bodies :
            /\ SetTokenList(FetchResult(body))
            /\ anomLeft' = IF body.kind = "seq" THEN anomLeft ELSE anomLeft - 1
            /\ timeline' = timeline \o <<Call("fetch"), delay(500)>>
            /\ GoFetchNext
            /\ UNCHANGED <<errors, op>>
       \/ /\ anomLeft > 0
          /\ anomLeft' = anomLeft - 1
          /\ errors' = Append(errors, FetchError(CHAINS[chainI].id))
          /\ op' = "fetchTokenList"
          /\ pc' = "errJsonOpen"
          /\ timeline' = Append(timeline, Call("fetch"))
          /\ UNCHANGED <<tokenLists, catalogs, count, chainI>>
    /\ UNCHANGED <<files, records, wallets, tokenI, cur, fileI>>
    /\ fetches' = Append(fetches, [run |-> run, chain |-> CHAINS[chainI].id])
    /\ UNCHANGED <<posLeft, runsLeft, catalogSizes>>
    /\ UNCHANGED <<run, origList, startList, startRows, startFiles, probes, allRun, cpLog, ends>>

\* --------------------------------------------------------------- error log
\* updateErrorJson: fs.writeFileSync opens errorJsonPath, which empties it ...
ErrJsonOpen ==
    /\ pc = "errJsonOpen"
    /\ errorJson' = NoDoc
    /\ exists' = exists \cup {"ejson"}
    /\ pc' = "errJsonWrite"
    /\ UNCHANGED <<walletList, allBalances, nonZeroBalances, errorCsv>>
    /\ UNCHANGED <<errors, records, wallets, tokenLists, count, chainI, tokenI, cur, op, fileI>>
    /\ UNCHANGED <<env, history>>

\* ... and writes JSON.stringify(errors) into it
ErrJsonWrite ==
    /\ pc = "errJsonWrite"
    /\ errorJson' = JsonDoc(errors)
    /\ pc' = "errCsv"
    /\ UNCHANGED <<walletList, exists, allBalances, nonZeroBalances, errorCsv>>
    /\ UNCHANGED <<errors, records, wallets, tokenLists, count, chainI, tokenI, cur, op, fileI>>
    /\ UNCHANGED <<env, history>>

\* if (balance > 0) appendToCsv(nonZeroBalancesPath, ...), else straight on
GoWriteRecord(record) == pc' = IF NonZero(record) THEN "writeNZ" ELSE "writeAll"

\* appendToCsv(errorCsvPath, ...), and the return of the function that failed;
\* after fetchTokenList, await delay(500) and the next chain
ErrCsv ==
    /\ pc = "errCsv"
    /\ errorCsv' = AppendText(errorCsv, ErrorLine(Last(errors)))
    /\ exists' = exists \cup {"ecsv"}
    /\ CASE op = "fetchTokenList" ->
              /\ SetTokenList(EmptyList)
              /\ timeline' = Append(timeline, delay(500))
              /\ GoFetchNext
         [] op = "processWallets" ->
              /\ pc' = "failed"
              /\ UNCHANGED <<tokenLists, catalogs, count, chainI, timeline>>
         [] OTHER ->
              /\ GoWriteRecord(cur)
              /\ UNCHANGED <<tokenLists, catalogs, count, chainI, timeline>>
    /\ UNCHANGED <<walletList, allBalances, nonZeroBalances, errorJson>>
    /\ UNCHANGED <<errors, records, wallets, tokenI, cur, op, fileI>>
    /\ UNCHANGED <<env, run, origList, startList, startRows, startFiles, probes, fetches,
                    allRun, cpLog, ends>>

\* ------------------------------------------------------------ processWallet
ProbeEntry(address, chain, tokenAddress, rpc) ==
    [run |-> run, address |-> address, chain |-> chain.name,
     tokenAddress |-> tokenAddress, failed |-> ~rpc.ok, raw |-> rpc.raw]

\* what follows a call of checkNativeBalance or checkERC20Balance
AfterCall(res, operation) ==
    /\ cur' = res.record
    /\ IF res.threw THEN Throw(RpcMessage, errors)
       ELSE IF res.errs # <<>>
       THEN errors' = errors \o res.errs /\ op' = operation /\ pc' = "errJsonOpen"
       ELSE GoWriteRecord(res.record) /\ UNCHANGED <<errors, op>>

NativeToken == [address |-> "native", symbol |-> "", name |-> "", decimals |-> WEI_DECIMALS]

\* await delay(300); const nativeBalance = await checkNativeBalance(address, chain)
ProbeNative ==
    /\ pc = "native"
    /\ \E rpc \in RpcAnswers :
         /\ AfterCall(CheckNativeBalance(wallets[count], CHAINS[chainI], rpc),
                      "checkNativeBalance")
         /\ probes' = Append(probes, ProbeEntry(wallets[count], CHAINS[chainI], "native", rpc))
         /\ timeline' = timeline \o <<delay(300), Call("probe")>>
         /\ Spend(rpc, NativeToken)
    /\ UNCHANGED <<files, records, wallets, tokenLists, count, chainI, tokenI, fileI>>
    /\ UNCHANGED <<run, origList, startList, startRows, startFiles, fetches, allRun,
                    catalogs, cpLog, ends>>

\* the tokens processWallet probes on the current chain
CurrentTokens == TokensToCheck(TokensOf(tokenLists[chainI]))

\* await delay(300); const tokenBalance = await checkERC20Balance(address, chain, token)
ProbeToken ==
    /\ pc = "token"
    /\ LET token == CurrentTokens[tokenI] IN
        \E rpc \in RpcAnswersFor(token) :
         /\ AfterCall(CheckERC20Balance(wallets[count], CHAINS[chainI], token, rpc),
                      "checkERC20Balance")
         /\ probes' = Append(probes, ProbeEntry(wallets[count], CHAINS[chainI],
                                                token.address, rpc))
         /\ timeline' = timeline \o <<delay(300), Call("probe")>>
         /\ Spend(rpc, token)
    /\ UNCHANGED <<files, records, wallets, tokenLists, count, chainI, tokenI, fileI>>
    /\ UNCHANGED <<run, origList, startList, startRows, startFiles, fetches, allRun,
                    catalogs, cpLog, ends>>

\* appendToCsv(nonZeroBalancesPath, ...)
WriteNonZero ==
    /\ pc = "writeNZ"
    /\ nonZeroBalances' = AppendText(nonZeroBalances, BalanceLine(wallets[count], cur))
    /\ exists' = exists \cup {"nz"}
    /\ pc' = "writeAll"
    /\ UNCHANGED <<walletList, allBalances, errorCsv, errorJson>>
    /\ UNCHANGED <<errors, records, wallets, tokenLists, count, chainI, tokenI, cur, op, fileI>>
    /\ UNCHANGED <<env, history>>

\* the end of a chain's probes: the next chain, or the return of processWallet
GoNextChain ==
    IF chainI < Len(CHAINS)
    THEN pc' = "native" /\ chainI' = chainI + 1 /\ tokenI' = 1
    ELSE pc' = "cpOpen" /\ UNCHANGED <<chainI, tokenI>>

\* after the native row: tokens.slice(0, 20) and the first token, if any
GoFirstToken ==
    IF SliceThrows(TokensOf(tokenLists[chainI]))
    THEN Throw(SliceMessage, errors) /\ UNCHANGED <<chainI, tokenI>>
    ELSE /\ UNCHANGED <<errors, op>>
         /\ IF CurrentTokens = <<>> THEN GoNextChain
            ELSE pc' = "token" /\ tokenI' = 1 /\ UNCHANGED chainI

\* after a token's row: the next token, if any
GoNextToken ==
    /\ UNCHANGED <<errors, op>>
    /\ IF tokenI < Len(CurrentTokens)
       THEN pc' = "token" /\ tokenI' = tokenI + 1 /\ UNCHANGED chainI
       ELSE GoNextChain

\* appendToCsv(allBalancesPath, ...), and on to the next probe
WriteAll ==
    /\ pc = "writeAll"
    /\ allBalances' = AppendText(allBalances, BalanceLine(wallets[count], cur))
    /\ exists' = exists \cup {"all"}
    /\ allRun' = Append(allRun, run)
    /\ IF cur.tokenType = "native" THEN GoFirstToken ELSE GoNextToken
    /\ UNCHANGED <<walletList, nonZeroBalances, errorCsv, errorJson>>
    /\ UNCHANGED <<records, wallets, tokenLists, count, cur, fileI>>
    /\ UNCHANGED <<env, run, origList, startList, startRows, startFiles, probes, fetches,
                    catalogs, cpLog, ends, timeline>>

\* ------------------------------------------------------- updateWalletListCsv
\* fs.writeFileSync(inputCsvPath, updatedCsv) opens the source list, which
\* empties it ...
CheckpointOpen ==
    /\ pc = "cpOpen"
    /\ walletList' = EmptyText
    /\ pc' = "cpWrite"
    /\ UNCHANGED outputs
    /\ UNCHANGED <<errors, records, wallets, tokenLists, count, chainI, tokenI, cur, op, fileI>>
    /\ UNCHANGED <<env, history>>

\* ... and writes the remaining records; records = updateWalletListCsv(...);
\* then the next wallet (after the pause that follows every third one)
CheckpointWrite ==
    /\ pc = "cpWrite"
    /\ LET updatedRecords == UpdatedRecords(records, wallets[count]) IN
        /\ walletList' = StringifyRecords(updatedRecords)
        /\ records' = updatedRecords
    /\ cpLog' = Append(cpLog, [run |-> run, address |-> wallets[count]])
    /\ timeline' = timeline \o <<Call("checkpoint")>> \o PauseAfter(count)
    /\ IF count < Len(wallets)
       THEN pc' = "native" /\ count' = count + 1 /\ chainI' = 1 /\ tokenI' = 1
       ELSE pc' = "done" /\ UNCHANGED <<count, chainI, tokenI>>
    /\ UNCHANGED outputs
    /\ UNCHANGED <<errors, wallets, tokenLists, cur, op, fileI>>
    /\ UNCHANGED <<env, run, origList, startList, startRows, startFiles, probes, fetches,
                    allRun, catalogs, ends>>

\* ------------------------------------------------------- the process itself
\* the wallet whose probes have started and whose checkpoint is not written
InProgress ==
    IF \/ pc \in {"native", "token", "writeNZ", "writeAll", "cpOpen", "cpWrite"}
       \/ pc \in {"errJsonOpen", "errJsonWrite", "errCsv"} /\ op # "fetchTokenList" /\ count > 0
    THEN wallets[count] ELSE NoWallet

\* The process is killed from outside, between two steps. Nothing of its memory
\* survives. (A kill that no run follows changes no file: it is left out.)
Kill ==
    /\ Running
    /\ runsLeft > 0
    /\ pc' = "dead"
    /\ ends' = Append(ends, [how |-> "killed", at |-> pc, wallet |-> InProgress])
    /\ UNCHANGED files
    /\ UNCHANGED <<errors, records, wallets, tokenLists, count, chainI, tokenI, cur, op, fileI>>
    /\ UNCHANGED <<env, run, origList, startList, startRows, startFiles, probes, fetches,
                    allRun, catalogs, cpLog, timeline>>

\* node index.js, once more, on the files as they are
Restart ==
    /\ ~Running
    /\ runsLeft > 0
    /\ runsLeft' = runsLeft - 1
    /\ run' = run + 1
    /\ ends' = IF pc = "dead" THEN ends
               ELSE Append(ends, [how |-> pc, at |-> pc, wallet |-> NoWallet])
    /\ catalogs' = Append(catalogs, [i \in ChainIdx |-> Unset])
    /\ pc' = "init"
    /\ errors' = <<>>
    /\ records' = <<>>
    /\ wallets' = <<>>
    /\ tokenLists' = [i \in ChainIdx |-> Unset]
    /\ count' = 0
    /\ chainI' = 1
    /\ tokenI' = 1
    /\ cur' = NoRecord
    /\ op' = "none"
    /\ fileI' = 1
    /\ startList' = walletList.rows
    /\ startRows' = [all |-> Len(allBalances.rows), nz |-> Len(nonZeroBalances.rows),
                     ecsv |-> Len(errorCsv.rows)]
    /\ startFiles' = OutputsNow
    /\ timeline' = <<>>
    /\ UNCHANGED files
    /\ UNCHANGED <<anomLeft, posLeft, catalogSizes>>
    /\ UNCHANGED <<origList, probes, fetches, allRun, cpLog>>

Next ==
    \/ InitSkip
    \/ InitOpen
    \/ InitWrite
    \/ ReadSource
    \/ FetchTokenList
    \/ ErrJsonOpen
    \/ ErrJsonWrite
    \/ ErrCsv
    \/ ProbeNative
    \/ ProbeToken
    \/ WriteNonZero
    \/ WriteAll
    \/ CheckpointOpen
    \/ CheckpointWrite
    \/ Kill
    \/ Restart

Spec == Init /\ [][Next]_vars

\* ------------------------------------------- further specifications
\* A step of the process itself. Once started, the script runs on: every call
\* it awaits returns or is rejected, and nothing else holds it back. Being
\* killed and being started again are up to the environment.
Step ==
    \/ InitSkip
    \/ InitOpen
    \/ InitWrite
    \/ ReadSource
    \/ FetchTokenList
    \/ ErrJsonOpen
    \/ ErrJsonWrite
    \/ ErrCsv
    \/ ProbeNative
    \/ ProbeToken
    \/ WriteNonZero
    \/ WriteAll
    \/ CheckpointOpen
    \/ CheckpointWrite

\* the runs on which progress is checked: lists of the eligible rows and of
\* one row that is not eligible, catalogs of MaxCatalog tokens
InitLive ==
    InitWith(SeqsUpTo({r \in RowKinds : Eligible(r)}
                         \cup {SourceRow(AddrA, "email", "embeddedWallet")}, MaxRows),
             {[sizes |-> {MaxCatalog}, budget |-> b] : b \in Budgets})

SpecLive == InitLive /\ [][Next]_vars /\ WF_vars(Step)

\* the runs that show how the error log behaves over a restart
InitErr ==
    InitWith(SeqsUpTo(RowKinds, 1),
             {[sizes |-> 0..MaxCatalog, budget |-> b] : b \in {<<2, 0, 1>>, <<0, 1, 0>>}})

SpecErr == InitErr /\ [][Next]_vars

\* The runs that show the limit on the tokens: one wallet; catalogs of one
\* token above the limit and of 50 tokens, with one failure or one balance
\* above zero; or catalogs of 50 tokens, with a kill and a second run.
InitCap ==
    InitWith(SeqsUpTo({SourceRow(AddrA, "blockchain", "embeddedWallet")}, 1),
             {[sizes |-> {TOKEN_LIMIT + 1, 50}, budget |-> <<1, 0, 0>>],
              [sizes |-> {TOKEN_LIMIT + 1, 50}, budget |-> <<0, 1, 0>>],
              [sizes |-> {50}, budget |-> <<0, 0, 1>>]})

SpecCap == InitCap /\ [][Next]_vars

\* The runs that end in the catch of processWallets: the source list is
\* missing, or holds one or two wallets and a catalog turns out to be no list.
InitFail ==
    InitOn({NoFile} \cup {StringifyRecords(l) :
                l \in SeqsUpTo({r \in RowKinds : Eligible(r)}, MaxRows)},
           {[sizes |-> 0..MaxCatalog, budget |-> b] : b \in {<<1, 0, 1>>, <<0, 1, 0>>}})

SpecFail == InitFail /\ [][Next]_vars

\* The runs that show the pacing: lists of no, three and MaxPaced wallets, one
\* row each, and a list of four in which the first has two rows; every catalog
\* holds MaxCatalog tokens; two failures, or one balance above zero, or one
\* failure, a kill and a second run.
PacedAddress(i) == <<"0", "x", <<"1", "2", "3", "4", "5", "6", "7", "8", "9">>[i]>>

PacedList(n) == [i \in 1..n |-> SourceRow(PacedAddress(i), "blockchain", "embeddedWallet")]

InitPace ==
    InitWith({PacedList(n) : n \in {0, 3, MaxPaced}}
                \cup {<<PacedList(1)[1]>> \o PacedList(4)},
             {[sizes |-> {MaxCatalog}, budget |-> b] :
                 b \in {<<2, 0, 0>>, <<0, 1, 0>>, <<1, 0, 1>>}})

SpecPace == InitPace /\ [][Next]_vars

\* ----------------------------------------------------- words of the claims
\* a row of the source list that makes its wallet eligible
EligibleRow(row) ==
    /\ row.verified_credential_format = "blockchain"
    /\ row.verified_credential_walletProvider = "embeddedWallet"
    /\ Len(row.verified_credential_address) >= 2
    /\ row.verified_credential_address[1] = "0"
    /\ row.verified_credential_address[2] = "x"

\* the wallets a list makes eligible
EligibleWallets(list) ==
    {list[i].verified_credential_address : i \in {j \in 1..Len(list) : EligibleRow(list[j])}}

\* the persisted source list has a row of wallet W that counts as eligible
ListedEligible(W) ==
    \E j \in 1..Len(walletList.rows) :
        /\ walletList.rows[j].verified_credential_address = W
        /\ walletList.rows[j].verified_credential_format = "blockchain"
        /\ walletList.rows[j].verified_credential_walletProvider = "embeddedWallet"

\* the wallets whose checkpoint was written, in run r / before run r
CheckpointedIn(r) == {cpLog[i].address : i \in {j \in 1..Len(cpLog) : cpLog[j].run = r}}
CheckpointedBefore(r) == {cpLog[i].address : i \in {j \in 1..Len(cpLog) : cpLog[j].run < r}}

\* the probes of run r, and the wallets they were issued for
ProbesIn(r) == {i \in 1..Len(probes) : probes[i].run = r}
ProbedIn(r) == {probes[i].address : i \in ProbesIn(r)}

\* the tokens of a catalog that a wallet is probed for: the first 20, at most
FirstTokens(list) ==
    LET items == IF list.kind \in {"seq", "string"} THEN list.items ELSE <<>>
    IN  SubSeq(items, 1, IF Len(items) < 20 THEN Len(items) ELSE 20)

\* an address as a CSV cell shows it
AsCell(a) == IF a = "undefined" THEN "" ELSE a

\* run r wrote an all-balances row for wallet W, this chain and this asset
HasRow(r, W, chainName, asset) ==
    \E i \in 1..Len(allBalances.rows) :
        /\ allRun[i] = r
        /\ allBalances.rows[i][1] = W
        /\ allBalances.rows[i][2] = chainName
        /\ allBalances.rows[i][6] = asset

\* run r wrote W's native row and W's token rows for every configured chain
CompleteIn(r, W) ==
    \A c \in 1..Len(CHAINS) :
        /\ HasRow(r, W, CHAINS[c].name, "native")
        /\ \A k \in 1..Len(FirstTokens(catalogs[r][c])) :
              HasRow(r, W, CHAINS[c].name, AsCell(FirstTokens(catalogs[r][c])[k].address))

\* the run has added this many lines to the three CSV outputs
AddedRows ==
    [all |-> Len(allBalances.rows) - startRows.all,
     nz |-> Len(nonZeroBalances.rows) - startRows.nz,
     ecsv |-> Len(errorCsv.rows) - startRows.ecsv]

\* the process is between the failure and the end of its handling
Handling == pc \in {"errJsonOpen", "errJsonWrite", "errCsv"}

\* the number of places of a sequence that hold x
CountIn(seq, x) == Cardinality({i \in 1..Len(seq) : seq[i] = x})

\* the all-balances lines that run r wrote, and the probes it issued, in order
RowsOfRun(r) ==
    SelectIdx(allBalances.rows, [i \in 1..Len(allRun) |-> allRun[i] = r], 1)
ProbesOfRun(r) ==
    SelectIdx(probes, [i \in 1..Len(probes) |-> probes[i].run = r], 1)

RECURSIVE ExpectedRows(_, _)
\* the sum, over the chains from c on, of 1 + min(20, catalogSize)
ExpectedRows(r, c) ==
    IF c > Len(CHAINS) THEN 0
    ELSE 1 + Len(FirstTokens(catalogs[r][c])) + ExpectedRows(r, c + 1)

\* the probes of run r for wallet W on one chain, in order
ProbesFor(r, W, chainName) ==
    SelectIdx(probes, [i \in 1..Len(probes) |->
                          /\ probes[i].run = r
                          /\ probes[i].address = W
                          /\ probes[i].chain = chainName], 1)

\* where wallet W stands in the current run
Status(W) ==
    IF W \in CheckpointedIn(run) THEN "Checkpointed"
    ELSE IF W \in ProbedIn(run) THEN "Probing"
    ELSE "Pending"

\* the moves of a wallet that the run may make in one step
StatusMoves ==
    {<<"Pending", "Pending">>, <<"Pending", "Probing">>, <<"Probing", "Probing">>,
     <<"Probing", "Checkpointed">>, <<"Checkpointed", "Checkpointed">>}

\* a failure that is neither a failed probe nor a failed catalog fetch has
\* reached the run: a catalog that is no list
OtherFailure == \E c \in ChainIdx : tokenLists[c].kind = "object"

\* the chains whose catalog fetch failed in the current run
FailedFetches ==
    {c \in ChainIdx : \E i \in 1..Len(errors) :
        /\ errors[i].operation = "fetchTokenList"
        /\ errors[i].chain = ChainIdText(CHAINS[c].id)}

\* the chains whose catalog response was a success with a `data` field that
\* is no sequence of token descriptors
MalformedCatalogs == {c \in ChainIdx : tokenLists[c].kind \in {"string", "object"}}

\* the run has read its source list and derived its wallets
WalletsDerived ==
    LET at == IF pc = "dead" THEN ends[Len(ends)].at ELSE pc
    IN  at \notin {"init", "initWrite", "read"}

\* the rows of a list other than the eligible rows of the wallets Ws, in order
WithoutEligibleOfAll(list, Ws) ==
    SelectSeq(list, LAMBDA row : ~(row.verified_credential_address \in Ws /\ EligibleRow(row)))

\* updateWalletListCsv has opened the source list and not yet written it
MidRewrite ==
    \/ pc = "cpWrite"
    \/ pc = "dead" /\ ends[Len(ends)].at = "cpWrite"

\* the rows of a list that are not eligible, in order
NotEligibleRows(list) == SelectSeq(list, LAMBDA row : ~EligibleRow(row))

\* the process is in initializeOutputFiles, or has just returned from it
InInit == pc \in {"init", "initWrite", "read"}

\* what initializeOutputFiles writes into an output file that is missing
HeaderOnly ==
    [all |-> [hdr |-> <<allHeaders>>, rows |-> <<>>],
     nz |-> [hdr |-> <<allHeaders>>, rows |-> <<>>],
     ecsv |-> [hdr |-> <<errorHeaders>>, rows |-> <<>>],
     ejson |-> [valid |-> TRUE, entries |-> <<>>]]

\* e is the record of a failure caught at the top level
TopLevelRecord(e) ==
    /\ e.chain = "N/A"
    /\ e.token = "N/A"
    /\ e.tokenAddress = "N/A"
    /\ e.walletAddress = <<"N", "/", "A">>
    /\ e.operation = "processWallets"

\* the decimals a balance is to be scaled by: 18 for the native asset, the
\* descriptor's decimals for a token, 18 when the descriptor carries none
ClaimedDecimals ==
    IF cur.tokenType = "native" THEN 18
    ELSE LET token == catalogs[run][chainI].items[tokenI]
         IN  IF token.decimals = 0 THEN 18 ELSE token.decimals

\* the place of wallet W's first eligible row in the list the run started on
FirstRowOf(W) ==
    CHOOSE i \in 1..Len(startList) :
        /\ EligibleRow(startList[i]) /\ startList[i].verified_credential_address = W
        /\ \A j \in 1..(i - 1) :
              ~(EligibleRow(startList[j]) /\ startList[j].verified_credential_address = W)

\* the place of a chain in the registry
ChainPlace(chainName) == CHOOSE c \in 1..Len(CHAINS) : CHAINS[c].name = chainName

\* the place of a probe within its chain: 0 for the native asset, k for the
\* k-th token of the chain's catalog
AssetPlace(probe) ==
    IF probe.tokenAddress = "native" THEN 0
    ELSE LET items == catalogs[probe.run][ChainPlace(probe.chain)].items
         IN  CHOOSE k \in 1..Len(items) : items[k].address = probe.tokenAddress

\* the place of a probe in the order wallet, chain, asset
ProbePlace(probe) ==
    FirstRowOf(probe.address) * 10000 + ChainPlace(probe.chain) * 100 + AssetPlace(probe)

\* the chain ids that run r called fetchTokenList for, in the order of the calls
FetchesOfRun(r) ==
    LET fs == SelectIdx(fetches, [i \in 1..Len(fetches) |-> fetches[i].run = r], 1)
    IN  [i \in 1..Len(fs) |-> fs[i].chain]

\* the ids of the configured chains, in registry order
ChainIds == [c \in 1..Len(CHAINS) |-> CHAINS[c].id]

\* the places of the timeline that hold a call of this kind
CallsAt(kind) == {i \in 1..Len(timeline) : timeline[i].kind = kind}

\* the places of the timeline that hold a wait of ms milliseconds
WaitsAt(ms) == {i \in 1..Len(timeline) : timeline[i] = delay(ms)}

\* the checkpoint at place i is this one of the run: the 1st, the 2nd, ...
CheckpointNo(i) == Cardinality({j \in CallsAt("checkpoint") : j <= i})

\* the call of fetchTokenList is under way: it has failed and is writing its
\* ErrorRecord, or the process was killed while it did
FetchUnderWay ==
    LET at == IF pc = "dead" THEN ends[Len(ends)].at ELSE pc
    IN  at \in {"errJsonOpen", "errJsonWrite", "errCsv"} /\ op = "fetchTokenList"

\* ------------------------------------------------------------ properties
\* C1: once updateWalletListCsv(records, W) has run for a wallet W, the
\* persisted source list holds no row with address W, format 'blockchain' and
\* provider 'embeddedWallet', whether W's probes succeeded or failed.
C1_CheckpointDurable ==
    \A i \in 1..Len(cpLog) : ~ListedEligible(cpLog[i].address)

\* a wallet with a failed probe has been checkpointed, another is still listed
C1_Witness ==
    /\ \E i \in 1..Len(cpLog) : \E k \in ProbesIn(cpLog[i].run) :
          probes[k].address = cpLog[i].address /\ probes[k].failed
    /\ \E W \in EligibleWallets(origList) : ListedEligible(W)

\* C2: at every point, a wallet that was eligible in the original list and has
\* no eligible row in the persisted list has all its all-balances rows, for
\* every chain; and the list is rewritten once per wallet per run.
C2_CheckpointAfterProbes ==
    /\ \A W \in EligibleWallets(origList) :
          ~ListedEligible(W) => \E r \in 1..run : CompleteIn(r, W)
    /\ \A i, j \in 1..Len(cpLog) : cpLog[i] = cpLog[j] => i = j
    /\ pc = "done" => CheckpointedIn(run) = EligibleWallets(startList)

\* C3: a run started on a list from which a prior run removed wallets probes
\* only wallets that the list it started on makes eligible, none that a prior
\* run checkpointed, and, once it completes, all of them, each checkpointed.
C3_Resume ==
    /\ ProbedIn(run) \subseteq EligibleWallets(startList)
    /\ ProbedIn(run) \cap CheckpointedBefore(run) = {}
    /\ pc = "done" =>
          /\ ProbedIn(run) = EligibleWallets(startList)
          /\ CheckpointedIn(run) = EligibleWallets(startList)

\* the second run is complete: the first removed a wallet, this one probed the rest
C3_Witness ==
    /\ run = 2
    /\ pc = "done"
    /\ CheckpointedBefore(2) # {}
    /\ ProbedIn(2) # {}
    /\ EligibleWallets(origList) = CheckpointedBefore(2) \cup ProbedIn(2)

\* C4: after one kill and a second run that reaches its end, every wallet of
\* the original list has a complete set of rows, and only the wallet that was
\* in progress at the kill has rows of both runs.
C4_CrashRestart ==
    (run = 2 /\ pc = "done" /\ ends[1].how = "killed") =>
        /\ \A W \in EligibleWallets(origList) : \E r \in 1..2 : CompleteIn(r, W)
        /\ \A W \in EligibleWallets(origList) :
              (/\ \E i \in 1..Len(allRun) : allRun[i] = 1 /\ allBalances.rows[i][1] = W
               /\ \E i \in 1..Len(allRun) : allRun[i] = 2 /\ allBalances.rows[i][1] = W)
              => W = ends[1].wallet

\* C5 as stated: a run started on a list without an eligible row issues no
\* probe and adds no row to the all-balances, non-zero or error CSV file,
\* whatever the catalog fetches of the run do.
C5_IdempotentRestartOriginal ==
    EligibleWallets(startList) = {} =>
        /\ ProbesIn(run) = {}
        /\ AddedRows = [all |-> 0, nz |-> 0, ecsv |-> 0]

\* C5 as amended: such a run issues no probe and adds no row to the
\* all-balances and non-zero files; the error CSV gains one row for each
\* catalog fetch of the run that failed, and none when none failed.
C5_IdempotentRestart ==
    EligibleWallets(startList) = {} =>
        /\ ProbesIn(run) = {}
        /\ AddedRows.all = 0 /\ AddedRows.nz = 0
        /\ \A i \in 1..Len(errors) : errors[i].operation = "fetchTokenList"
        /\ AddedRows.ecsv <= Len(errors)
        /\ pc \in {"fetch", "done"} => AddedRows.ecsv = Len(errors)

\* a second run, on a list that the first one emptied, has ended after a
\* catalog fetch of it failed
C5_Witness ==
    /\ run = 2 /\ pc = "done"
    /\ EligibleWallets(origList) # {}
    /\ EligibleWallets(startList) = {}
    /\ Len(errors) = 1
    /\ AddedRows.ecsv = 1

\* C6: once the handling of an absorbed failure is complete, the error JSON
\* document has as many entries as the error CSV has rows under its header,
\* and the last of each carry the same six values; in any run, resumed or not.
C6_ErrorMirroring ==
    (/\ pc \notin {"errJsonOpen", "errJsonWrite", "errCsv", "dead"}
     /\ errors # <<>>
     /\ errors[Len(errors)].operation # "processWallets") =>
        /\ Len(errorJson.entries) = Len(errorCsv.rows)
        /\ Len(errorCsv.rows) > 0
        /\ LET e == errorJson.entries[Len(errorJson.entries)] IN
             errorCsv.rows[Len(errorCsv.rows)] =
                <<e.chain, AsCell(e.token), AsCell(e.tokenAddress),
                  e.walletAddress, e.operation, e.error>>

\* C7: a balance line that processWallet has written is in the non-zero file
\* if and only if its balance is above zero; the line of a failed probe
\* (balance 0) never is.
C7_NonZeroFilter ==
    /\ \A i \in 1..Len(nonZeroBalances.rows) : nonZeroBalances.rows[i][5].num > 0
    /\ \A i \in 1..Len(allBalances.rows) :
          LET row == allBalances.rows[i] IN
            IF row[5].num > 0
            THEN CountIn(nonZeroBalances.rows, row) >= CountIn(allBalances.rows, row)
            ELSE CountIn(nonZeroBalances.rows, row) = 0

\* a balance above zero and the zero balance of a failed probe are both written
C7_Witness ==
    /\ \E i \in 1..Len(allBalances.rows) :
          /\ allBalances.rows[i][5].num > 0
          /\ CountIn(nonZeroBalances.rows, allBalances.rows[i]) = 1
    /\ \E k \in 1..Len(probes) : k <= Len(allBalances.rows) /\ probes[k].failed
    /\ Len(allBalances.rows) = Len(probes)
    /\ Len(nonZeroBalances.rows) < Len(allBalances.rows)

\* C8: for every wallet a run has processed and every configured chain, the
\* run issued one native probe and then one token probe for each of the first
\* min(20, catalogSize) tokens of the chain's catalog, in catalog order.
C8_ProbeCoverage ==
    \A i \in 1..Len(cpLog) : \A c \in 1..Len(CHAINS) :
        LET ps == ProbesFor(cpLog[i].run, cpLog[i].address, CHAINS[c].name)
            want == FirstTokens(catalogs[cpLog[i].run][c])
        IN  /\ Len(ps) = 1 + Len(want)
            /\ ps[1].tokenAddress = "native"
            /\ \A k \in 1..Len(want) : ps[k + 1].tokenAddress = want[k].address

\* a wallet is processed on a catalog of 50 tokens: 20 of them were probed
C8_Witness ==
    \E i \in 1..Len(cpLog) : \E c \in 1..Len(CHAINS) :
        /\ Len(catalogs[cpLog[i].run][c].items) = 50
        /\ Len(ProbesFor(cpLog[i].run, cpLog[i].address, CHAINS[c].name)) = 21

\* C9: a run appends one all-balances line per probe, in the order of the
\* probes, the line of a failed probe with balance 0; a wallet that the run
\* has processed has the sum over the chains of 1 + min(20, catalogSize) lines.
C9_OneRowPerProbe ==
    \A r \in 1..run :
        LET rows == RowsOfRun(r)
            ps == ProbesOfRun(r)
        IN  /\ Len(rows) <= Len(ps)
            /\ Len(ps) <= Len(rows) + 1
            /\ (r = run /\ pc \in {"native", "token", "cpOpen", "cpWrite", "done"})
                  => Len(rows) = Len(ps)
            /\ \A i \in 1..Len(rows) :
                  /\ rows[i][1] = ps[i].address
                  /\ rows[i][2] = ps[i].chain
                  /\ rows[i][6] = AsCell(ps[i].tokenAddress)
                  /\ ps[i].failed => rows[i][5] = [num |-> 0, exp |-> 0]
            /\ \A W \in CheckpointedIn(r) :
                  Cardinality({i \in 1..Len(rows) : rows[i][1] = W}) = ExpectedRows(r, 1)

\* a run has ended with a wallet processed, one of whose probes failed, on
\* catalogs that are not empty
C9_Witness ==
    /\ pc = "done"
    /\ CheckpointedIn(run) # {}
    /\ ExpectedRows(run, 1) > Len(CHAINS)
    /\ \E k \in ProbesIn(run) : probes[k].failed

\* C10: a probe whose RPC call fails does not throw: it appends one
\* ErrorRecord, with its own name as the operation and the probed address as
\* the wallet, and returns balance 0 with the message; a probe whose call
\* succeeds appends none.
C10_ProbeAbsorbs ==
    [][ /\ (pc \in {"native", "token"} /\ pc' # "dead") =>
            IF probes'[Len(probes')].failed
            THEN /\ Len(errors') = Len(errors) + 1
                 /\ SubSeq(errors', 1, Len(errors)) = errors
                 /\ errors'[Len(errors')].operation =
                       (IF pc = "native" THEN "checkNativeBalance" ELSE "checkERC20Balance")
                 /\ errors'[Len(errors')].walletAddress = wallets[count]
                 /\ pc' = "errJsonOpen"
                 /\ cur'.balance = [num |-> 0, exp |-> 0]
                 /\ cur'.error = errors'[Len(errors')].error
            ELSE /\ errors' = errors
                 /\ pc' \in {"writeNZ", "writeAll"}
                 /\ cur'.error = "none"
        /\ (Handling /\ op \in {"checkNativeBalance", "checkERC20Balance"}) =>
            /\ errors' = errors
            /\ cur' = cur
            /\ pc' \in {"errJsonWrite", "errCsv", "writeAll", "dead"}
      ]_vars

\* the failed call of a token probe has returned to processWallet
C10_Witness ==
    /\ pc = "writeAll"
    /\ cur.tokenType = "erc20"
    /\ cur.error # "none"
    /\ errors # <<>>
    /\ errors[Len(errors)].operation = "checkERC20Balance"

C12_CatalogFailure ==
    /\ [][ /\ (pc = "fetch" /\ pc' = "errJsonOpen") =>
                /\ Len(errors') = Len(errors) + 1
                /\ SubSeq(errors', 1, Len(errors)) = errors
                /\ errors'[Len(errors')].operation = "fetchTokenList"
                /\ errors'[Len(errors')].chain = ChainIdText(CHAINS[chainI].id)
                /\ errors'[Len(errors')].walletAddress = <<"N", "/", "A">>
           /\ (Handling /\ op = "fetchTokenList" /\ pc' # "dead") =>
                /\ errors' = errors
                /\ pc' \in {"errJsonWrite", "errCsv", "fetch", "native", "done"}
                /\ (pc = "errCsv") =>
                      /\ tokenLists'[chainI] = [kind |-> "seq", items |-> <<>>]
                      /\ errorCsv'.rows = Append(errorCsv.rows,
                            <<ChainIdText(CHAINS[chainI].id), "N/A", "N/A",
                              <<"N", "/", "A">>, "fetchTokenList", errors[Len(errors)].error>>)
         ]_vars
    /\ [](\A c \in FailedFetches :
            /\ \A k \in ProbesIn(run) :
                  probes[k].chain = CHAINS[c].name => probes[k].tokenAddress = "native"
            /\ \A W \in CheckpointedIn(run) :
                  Len(ProbesFor(run, W, CHAINS[c].name)) = 1)

\* a run has ended after the fetch for one chain failed: its wallet has one
\* probe on that chain, and a token probe on a chain whose fetch succeeded
C12_Witness ==
    /\ pc = "done"
    /\ FailedFetches # {}
    /\ \E W \in CheckpointedIn(run) :
          /\ \A c \in FailedFetches : Len(ProbesFor(run, W, CHAINS[c].name)) = 1
          /\ \E c \in ChainIdx : Len(ProbesFor(run, W, CHAINS[c].name)) = 2

\* C13: a chain whose catalog response carries no sequence of token
\* descriptors is handled as a chain without tokens: no token probe is issued
\* on it, every processed wallet has its native probe on it, and the run is
\* not halted.
C13_MalformedIsEmpty ==
    \A c \in MalformedCatalogs :
        /\ \A k \in ProbesIn(run) :
              probes[k].chain = CHAINS[c].name => probes[k].tokenAddress = "native"
        /\ \A W \in CheckpointedIn(run) : Len(ProbesFor(run, W, CHAINS[c].name)) = 1
        /\ pc # "failed"
        /\ \A i \in 1..Len(errors) : errors[i].operation # "processWallets"

\* C14: the wallets of a run are the distinct addresses of the rows of its
\* source list with format 'blockchain', provider 'embeddedWallet' and an
\* address that starts with '0x'; each is processed once, however many
\* eligible rows carry it.
C14_WalletSet ==
    /\ WalletsDerived =>
          /\ {wallets[i] : i \in 1..Len(wallets)} = EligibleWallets(startList)
          /\ \A i, j \in 1..Len(wallets) : wallets[i] = wallets[j] => i = j
    /\ \A W \in ProbedIn(run) : \A c \in ChainIdx :
          Cardinality({k \in ProbesIn(run) :
                          /\ probes[k].address = W
                          /\ probes[k].chain = CHAINS[c].name
                          /\ probes[k].tokenAddress = "native"}) <= 1
    /\ \A i, j \in 1..Len(cpLog) : cpLog[i] = cpLog[j] => i = j
    /\ pc = "done" => CheckpointedIn(run) = EligibleWallets(startList)

\* a run has ended on a list of two eligible rows of one wallet
C14_Witness ==
    /\ pc = "done"
    /\ Len(startList) = 2
    /\ EligibleRow(startList[1])
    /\ startList[2] = startList[1]
    /\ Len(cpLog) = 1

\* C15: the calls of updateWalletListCsv(records, W) remove from the source
\* list the eligible rows of their wallets and nothing else, the other rows
\* keeping their order; after a run that is not killed the persisted list is
\* the rows of the list the run started on that were not eligible.
C15_CheckpointFrame ==
    /\ ~MidRewrite =>
          walletList.rows = WithoutEligibleOfAll(startList, CheckpointedIn(run))
    /\ pc \in {"done", "failed"} => walletList.rows = NotEligibleRows(startList)

\* C16: initializeOutputFiles leaves every output file that exists as it is
\* and creates every missing one with its header row alone (the empty array
\* for the error JSON); run on files that all exist, it changes nothing.
C16_IdempotentInit ==
    /\ InInit =>
          \A f \in startFiles.exists : OutputsNow[f] = startFiles[f]
    /\ pc = "read" =>
          /\ exists = {"all", "nz", "ecsv", "ejson"}
          /\ \A f \in exists \ startFiles.exists : OutputsNow[f] = HeaderOnly[f]
          /\ startFiles.exists = exists => OutputsNow = startFiles

\* a second run has initialized on the files of the first, which hold rows
C16_Witness ==
    /\ run = 2
    /\ pc = "read"
    /\ startFiles.exists = {"all", "nz", "ecsv", "ejson"}
    /\ Len(allBalances.rows) > 0
    /\ Len(nonZeroBalances.rows) > 0

\* C17: a failure that escapes inside processWallets is caught there: one
\* ErrorRecord is appended, with operation 'processWallets' and 'N/A' for
\* chain, token, tokenAddress and walletAddress; it is then written to the
\* error JSON and to the error CSV; no wallet is probed or checkpointed after
\* it, and the run ends without a rejection.
C17_TopLevelCaught ==
    /\ [][ /\ (~Handling /\ pc' = "errJsonOpen" /\ op' = "processWallets") =>
               /\ Len(errors') = Len(errors) + 1
               /\ SubSeq(errors', 1, Len(errors)) = errors
               /\ TopLevelRecord(errors'[Len(errors')])
               /\ probes' = probes
               /\ cpLog' = cpLog
           /\ (Handling /\ op = "processWallets" /\ pc' # "dead") =>
               /\ errors' = errors
               /\ probes' = probes
               /\ cpLog' = cpLog
               /\ walletList' = walletList
               /\ pc' \in {"errJsonWrite", "errCsv", "failed"}
               /\ (pc = "errJsonWrite") => errorJson'.entries = errors
               /\ (pc = "errCsv") =>
                     errorCsv'.rows = Append(errorCsv.rows,
                        <<"N/A", "N/A", "N/A", <<"N", "/", "A">>, "processWallets",
                          errors[Len(errors)].error>>)
           /\ (pc = "failed") => (probes' = probes /\ cpLog' = cpLog)
         ]_vars
    /\ [](pc = "failed" =>
            /\ Cardinality({i \in 1..Len(errors) : errors[i].operation = "processWallets"}) = 1
            /\ TopLevelRecord(errors[Len(errors)])
            /\ errorJson.valid
            /\ errorJson.entries = errors
            /\ errorCsv.rows # <<>>
            /\ errorCsv.rows[Len(errorCsv.rows)][5] = "processWallets")

\* a run of two wallets has ended in the catch, after a probe of the first
C17_Witness ==
    /\ pc = "failed"
    /\ Len(wallets) = 2
    /\ ProbedIn(run) = {wallets[1]}
    /\ CheckpointedIn(run) = {}
    /\ errorJson.entries = errors

\* C18: the balance a probe returns for the raw result r is r / 10^d: d is
\* 18 for the native asset, and for a token the decimals of its descriptor,
\* or 18 when the descriptor carries none.
C18_BalanceScaling ==
    (pc \in {"writeNZ", "writeAll"} /\ cur.error = "none") =>
        cur.balance = Norm(probes[Len(probes)].raw, ClaimedDecimals)

\* C19: the probes of a run follow one order: wallets by their first eligible
\* row in the source list, then chains in registry order, then the native
\* asset and the tokens in catalog order; the rows of a probe are written
\* before the next probe, and a wallet is checkpointed before the next
\* wallet's first probe.
C19_IterationOrder ==
    LET ps == ProbesOfRun(run) IN
    /\ \A k \in 1..(Len(ps) - 1) : ProbePlace(ps[k]) < ProbePlace(ps[k + 1])
    /\ pc \in {"native", "token"} => Len(RowsOfRun(run)) = Len(ps)
    /\ Len(ps) <= Len(RowsOfRun(run)) + 1
    /\ \A W \in ProbedIn(run) : \A V \in EligibleWallets(startList) :
          FirstRowOf(V) < FirstRowOf(W) => V \in CheckpointedIn(run)

\* a run has ended after two wallets, with a token probed for each
C19_Witness ==
    /\ pc = "done"
    /\ Len(cpLog) >= 2
    /\ cpLog[Len(cpLog)].run = run
    /\ cpLog[Len(cpLog) - 1].run = run
    /\ \A W \in CheckpointedIn(run) :
          \E k \in ProbesIn(run) : probes[k].address = W /\ probes[k].tokenAddress # "native"

\* C20: a run calls fetchTokenList once for each configured chain, in
\* registry order; all the calls are complete before the first probe, and a
\* token list, once set, stays as it is for the rest of the run.
C20_FetchedOnce ==
    /\ [](/\ Len(FetchesOfRun(run)) <= Len(ChainIds)
          /\ FetchesOfRun(run) = SubSeq(ChainIds, 1, Len(FetchesOfRun(run)))
          /\ (ProbesIn(run) # {} \/ pc = "done") =>
                /\ FetchesOfRun(run) = ChainIds
                /\ \A c \in ChainIdx : tokenLists[c].kind # "unset")
    /\ [][run' = run =>
            /\ \A c \in ChainIdx :
                  tokenLists[c].kind # "unset" => tokenLists'[c] = tokenLists[c]
            /\ (pc \notin {"fetch", "errJsonOpen", "errJsonWrite", "errCsv"}) =>
                  (tokenLists' = tokenLists /\ fetches' = fetches)
            /\ (ProbesIn(run) # {}) => (tokenLists' = tokenLists /\ fetches' = fetches)
         ]_vars

\* a run has ended with probes issued after one catalog fetch had failed
C20_Witness ==
    /\ pc = "done"
    /\ ProbesIn(run) # {}
    /\ FailedFetches # {}
    /\ FetchesOfRun(run) = ChainIds

\* C21: while updateWalletListCsv(records, W) is under way, the persisted
\* source list is either the list before the call or the list after it (the
\* eligible rows of W removed, nothing else); and the list a later run starts
\* on is the original list without the eligible rows of the wallets
\* checkpointed before it, never a truncated one.
C21_AtomicRewrite ==
    /\ (pc \in {"cpOpen", "cpWrite"}) =>
          walletList \in {StringifyRecords(records),
                          StringifyRecords(UpdatedRecords(records, wallets[count]))}
    /\ (run > 1) => startList = WithoutEligibleOfAll(origList, CheckpointedBefore(run))

C23_NonZeroSubset ==
    \A i \in (startRows.nz + 1)..Len(nonZeroBalances.rows) :
        \E j \in 1..Len(allBalances.rows) :
            allBalances.rows[j] = nonZeroBalances.rows[i]

\* C24: every ErrorRecord that the error JSON document held when the current
\* run started is in that document in every later state of the run.
C24_ErrorsKept ==
    \A i \in 1..Len(startFiles.ejson.entries) :
        \E j \in 1..Len(errorJson.entries) :
            errorJson.entries[j] = startFiles.ejson.entries[i]

====
